---- MODULE Spec2Model ----
(***************************************************************************)
(* Model of prolog_text_parser.cpp: the fact store (PrologDatabase), the   *)
(* statement interpreter (TextParser) and the question interpreter         *)
(* (QueryEngine).                                                          *)
(*                                                                         *)
(* std::string is a TLA+ string; its characters are read with SubSeq.      *)
(* size_t values are kept as their residue modulo 2^64 nearest to zero, so *)
(* string::npos (2^64 - 1) is -1 and npos + 10 is 9, as in the program.    *)
(***************************************************************************)
EXTENDS Integers, Sequences, FiniteSets, TLC

\* facts   : PrologDatabase::facts
\* op      : the operation called last
\* out     : the lines the last call wrote to cout
\* results : the vector the last call of query returned
\* alive   : FALSE once a call has ended the process
\* oob     : the last call read a vector element outside the vector
\* added   : the <<predicate, arguments>> addFact has been called with
VARIABLES facts, op, out, results, alive, oob, added

vars == <<facts, op, out, results, alive, oob, added>>

(***************************************************************************)
(* Bounds of the model.                                                    *)
(***************************************************************************)
MaxFacts == 2
MaxArity == 3
MaxDemoFacts == 5
MaxTokens == 5
MaxPhrases == 4

(***************************************************************************)
(* <cctype> and std::string helpers.                                       *)
(***************************************************************************)
npos == -1

UpperCase == "ABCDEFGHIJKLMNOPQRSTUVWXYZ"
LowerCase == "abcdefghijklmnopqrstuvwxyz"

Char(str, i) == SubSeq(str, i + 1, i + 1)

UpperChars == {Char(UpperCase, k) : k \in 0..25}

LowerOf ==
    [c \in UpperChars |->
        Char(LowerCase, CHOOSE k \in 0..25 : Char(UpperCase, k) = c)]

tolower(c) == IF c \in UpperChars THEN LowerOf[c] ELSE c

\* The grave accent, which ispunct also accepts, cannot be written in a
\* string here; no input of the model contains it.
PunctChars ==
        {"!", "\"", "#", "$", "%", "&", "'", "(", ")", "*", "+", ",", "-",
           ".", "/", ":", ";", "<", "=", ">", "?", "@", "[", "\\", "]", "^",
           "_", "{", "|", "}", "~"}

ispunct(c) == c \in PunctChars

SpaceChars == {" ", "\t", "\n", "\r", "\f"}

RECURSIVE toLower(_)
toLower(str) ==
    IF str = "" THEN ""
    ELSE tolower(Head(str)) \o toLower(Tail(str))

RECURSIVE removePunctuation(_)
removePunctuation(str) ==
    IF str # "" /\ ispunct(Char(str, Len(str) - 1))
    THEN removePunctuation(SubSeq(str, 1, Len(str) - 1))
    ELSE str

substr(str, pos) == SubSeq(str, pos + 1, Len(str))

substrN(str, pos, n) ==
    IF pos + n > Len(str) THEN SubSeq(str, pos + 1, Len(str))
    ELSE SubSeq(str, pos + 1, pos + n)

startsAt(str, pat, pos) ==
    /\ pos + Len(pat) <= Len(str)
    /\ SubSeq(str, pos + 1, pos + Len(pat)) = pat

RECURSIVE findFrom(_, _, _)
findFrom(str, pat, from) ==
    IF from < 0 \/ from + Len(pat) > Len(str) THEN npos
    ELSE IF startsAt(str, pat, from) THEN from
    ELSE findFrom(str, pat, from + 1)

find(str, pat) == findFrom(str, pat, 0)

(***************************************************************************)
(* PrologDatabase: facts is map<string, vector<vector<string>>>.           *)
(***************************************************************************)
EmptyFacts == [k \in {} |-> <<>>]

subscript(f, key) ==
    [k \in DOMAIN f \cup {key} |-> IF k \in DOMAIN f THEN f[k] ELSE <<>>]

RECURSIVE joinArgs(_, _)
joinArgs(arguments, i) ==
    IF i >= Len(arguments) THEN ""
    ELSE arguments[i + 1]
         \o (IF i + 1 < Len(arguments) THEN ", " ELSE "")
         \o joinArgs(arguments, i + 1)

\* addFact with the key left in the case it was given in
addFactKeepCase(f, predicate, arguments) ==
    LET g == subscript(f, predicate)
    IN  [facts |-> [g EXCEPT ![predicate] = Append(@, arguments)],
         out   |-> <<"Added fact: " \o predicate \o "("
                     \o joinArgs(arguments, 0) \o ")">>]

\* addFact that does not store a tuple the sequence already holds
addFactNoDup(f, predicate, arguments) ==
    LET pred == toLower(predicate)
        g    == subscript(f, pred)
    IN  [facts |-> IF \E k \in 1..Len(g[pred]) : g[pred][k] = arguments
                   THEN g
                   ELSE [g EXCEPT ![pred] = Append(@, arguments)],
         out   |-> <<"Added fact: " \o predicate \o "("
                     \o joinArgs(arguments, 0) \o ")">>]

addFact(f, predicate, arguments) ==
    LET pred == toLower(predicate)
        g    == subscript(f, pred)
    IN  [facts |-> [g EXCEPT ![pred] = Append(@, arguments)],
         out   |-> <<"Added fact: " \o predicate \o "("
                     \o joinArgs(arguments, 0) \o ")">>]

RECURSIVE argsMatch(_, _, _)
argsMatch(arguments, fact, i) ==
    IF i >= Len(arguments) THEN TRUE
    ELSE IF arguments[i + 1] # "?"
            /\ toLower(arguments[i + 1]) # toLower(fact[i + 1])
         THEN FALSE
         ELSE argsMatch(arguments, fact, i + 1)

\* The fact loop with break in place of continue at line 85
RECURSIVE scanFactsAbort(_, _, _, _)
scanFactsAbort(list, arguments, k, res) ==
    IF k > Len(list) THEN res
    ELSE IF Len(list[k]) # Len(arguments)
         THEN res
         ELSE IF argsMatch(arguments, list[k], 0)
              THEN scanFactsAbort(list, arguments, k + 1, Append(res, list[k]))
              ELSE scanFactsAbort(list, arguments, k + 1, res)

RECURSIVE scanFacts(_, _, _, _)
scanFacts(list, arguments, k, res) ==
    IF k > Len(list) THEN res
    ELSE IF Len(list[k]) # Len(arguments)
         THEN scanFacts(list, arguments, k + 1, res)
         ELSE IF argsMatch(arguments, list[k], 0)
              THEN scanFacts(list, arguments, k + 1, Append(res, list[k]))
              ELSE scanFacts(list, arguments, k + 1, res)

\* query without the find test of lines 74-76
queryNoFind(f, predicate, arguments) ==
    LET pred == toLower(predicate)
        g    == subscript(f, pred)
    IN  [facts |-> g, results |-> scanFacts(g[pred], arguments, 1, <<>>)]

query(f, predicate, arguments) ==
    LET pred == toLower(predicate)
    IN  IF pred \notin DOMAIN f
        THEN [facts |-> f, results |-> <<>>]
        ELSE LET g == subscript(f, pred)
             IN  [facts |-> g,
                  results |-> scanFacts(g[pred], arguments, 1, <<>>)]

(***************************************************************************)
(* TextParser.                                                             *)
(***************************************************************************)
Whitespace == {" ", "\t", "\n", "\r"}

find_first_not_of(str, chars) ==
    LET hits == {p \in 0..(Len(str) - 1) : Char(str, p) \notin chars}
    IN  IF hits = {} THEN npos
        ELSE CHOOSE p \in hits : \A q \in hits : p <= q

find_last_not_of(str, chars) ==
    LET hits == {p \in 0..(Len(str) - 1) : Char(str, p) \notin chars}
    IN  IF hits = {} THEN npos
        ELSE CHOOSE p \in hits : \A q \in hits : p >= q

\* std::getline(ss, token, delimiter), repeated until it fails
RECURSIVE getlines(_, _)
getlines(str, delimiter) ==
    IF str = "" THEN <<>>
    ELSE LET p == find(str, delimiter)
         IN  IF p = npos THEN <<str>>
             ELSE <<SubSeq(str, 1, p)>> \o getlines(substr(str, p + 1), delimiter)

\* token.erase(0, first); token.erase(last + 1)
trimToken(token) ==
    LET first == find_first_not_of(token, Whitespace)
        t1    == IF first = npos THEN "" ELSE substr(token, first)
        last  == find_last_not_of(t1, Whitespace)
    IN  SubSeq(t1, 1, last + 1)

split(str, delimiter) ==
    LET pieces  == getlines(str, delimiter)
        trimmed == [k \in 1..Len(pieces) |-> trimToken(pieces[k])]
    IN  SelectSeq(trimmed, LAMBDA t : t # "")

\* What reading words[i] gives.  Inside the vector it is the element.
\* Outside it the behaviour is undefined: the read ends the process, or it
\* yields whatever bytes lie there, here one of the strings of Garbage.
Garbage == {"", "Zq!"}

inRange(words, i) == 0 <= i /\ i < Len(words)

elementAt(words, i) ==
    IF inRange(words, i)
    THEN {[fault |-> FALSE, val |-> words[i + 1]]}
    ELSE {[fault |-> TRUE, val |-> ""]}
         \cup {[fault |-> FALSE, val |-> g] : g \in Garbage}

\* The effect of a call on the store and on cout: the store after it, the
\* lines written, whether it ended the process, whether it read outside a
\* vector, and the addFact calls it made.
noEffect(f) ==
    [facts |-> f, out |-> <<>>, fault |-> FALSE, oob |-> FALSE, calls |-> <<>>]

faulted(f) ==
    [facts |-> f, out |-> <<>>, fault |-> TRUE, oob |-> TRUE, calls |-> <<>>]

dbAddFact(f, predicate, arguments, readOutside) ==
    LET r == addFact(f, predicate, arguments)
    IN  [facts |-> r.facts, out |-> r.out, fault |-> FALSE,
         oob |-> readOutside, calls |-> <<<<predicate, arguments>>>>]

\* Pattern 2 of parseRelationship: "X RELATION Y"
relationshipTriple(f, words) ==
    IF Len(words) >= 3
    THEN LET subject  == removePunctuation(toLower(words[1]))
             relation == removePunctuation(toLower(words[2]))
             object   == removePunctuation(toLower(words[3]))
         IN  {dbAddFact(f, relation, <<subject, object>>, FALSE)}
    ELSE {noEffect(f)}

\* The body of the if of pattern 1, entered at index i
relationshipOf(f, words, i) ==
    {IF s.fault \/ o.fault
     THEN faulted(f)
     ELSE LET subject  == removePunctuation(toLower(s.val))
              relation == removePunctuation(toLower(words[i + 3]))
              object   == removePunctuation(toLower(o.val))
          IN  dbAddFact(f, relation, <<subject, object>>,
                        ~inRange(words, i - 1) \/ ~inRange(words, i + 4))
     : s \in elementAt(words, i - 1), o \in elementAt(words, i + 4)}

RECURSIVE relationshipLoop(_, _, _)
relationshipLoop(f, words, i) ==
    IF i >= Len(words) THEN relationshipTriple(f, words)
    ELSE IF /\ toLower(words[i + 1]) = "is"
            /\ i + 3 < Len(words)
            /\ toLower(words[i + 2]) = "the"
            /\ toLower(words[i + 4]) = "of"
         THEN relationshipOf(f, words, i)
         ELSE relationshipLoop(f, words, i + 1)

\* parseRelationship without the return of line 199
RECURSIVE relationshipLoopNoReturn(_, _, _)
relationshipLoopNoReturn(f, words, i) ==
    IF i >= Len(words) THEN relationshipTriple(f, words)
    ELSE IF /\ toLower(words[i + 1]) = "is"
            /\ i + 3 < Len(words)
            /\ toLower(words[i + 2]) = "the"
            /\ toLower(words[i + 4]) = "of"
         THEN UNION {IF r.fault THEN {r}
                     ELSE {[t EXCEPT !.out = r.out \o @,
                                     !.oob = r.oob,
                                     !.calls = r.calls \o @]
                           : t \in relationshipTriple(r.facts, words)}
                     : r \in relationshipOf(f, words, i)}
         ELSE relationshipLoopNoReturn(f, words, i + 1)

parseRelationshipNoReturn(f, words) == relationshipLoopNoReturn(f, words, 0)

parseRelationship(f, words) == relationshipLoop(f, words, 0)

\* parseProperty with subject and property exchanged in the call of addFact
parsePropertySwapped(f, words) ==
    IF Len(words) >= 3 /\ toLower(words[2]) = "is"
    THEN LET subject  == removePunctuation(toLower(words[1]))
             property == removePunctuation(toLower(words[3]))
         IN  {dbAddFact(f, subject, <<property>>, FALSE)}
    ELSE {noEffect(f)}

parseProperty(f, words) ==
    IF Len(words) >= 3 /\ toLower(words[2]) = "is"
    THEN LET subject  == removePunctuation(toLower(words[1]))
             property == removePunctuation(toLower(words[3]))
         IN  {dbAddFact(f, property, <<subject>>, FALSE)}
    ELSE {noEffect(f)}

RECURSIVE livesInLoop(_, _, _)
livesInLoop(f, words, i) ==
    IF i >= Len(words) THEN {noEffect(f)}
    ELSE IF /\ toLower(words[i + 1]) = "lives"
            /\ i + 2 < Len(words)
            /\ toLower(words[i + 2]) = "in"
         THEN {IF s.fault
               THEN faulted(f)
               ELSE LET subject  == removePunctuation(toLower(s.val))
                        location == removePunctuation(toLower(words[i + 3]))
                    IN  dbAddFact(f, "lives_in", <<subject, location>>,
                                  ~inRange(words, i - 1))
               : s \in elementAt(words, i - 1)}
         ELSE livesInLoop(f, words, i + 1)

parseLivesIn(f, words) == livesInLoop(f, words, 0)

parseText(f, text) ==
    LET echo      == <<"Parsing: \"" \o text \o "\"">>
        words     == split(text, " ")
        textLower == toLower(text)
        body ==
            IF words = <<>>
            THEN {[noEffect(f) EXCEPT
                      !.out = <<"Empty sentence, nothing to parse.">>]}
            ELSE IF find(textLower, "lives in") # npos
            THEN parseLivesIn(f, words)
            ELSE IF find(textLower, "is the") # npos
                    /\ find(textLower, " of ") # npos
            THEN parseRelationship(f, words)
            ELSE IF find(textLower, " is ") # npos
            THEN IF Len(words) = 3
                 THEN parseProperty(f, words)
                 ELSE parseRelationship(f, words)
            ELSE IF Len(words) >= 3
            THEN parseRelationship(f, words)
            ELSE {[noEffect(f) EXCEPT
                      !.out = <<"Could not parse sentence pattern.">>]}
    IN  {[r EXCEPT !.out = echo \o @] : r \in body}

(***************************************************************************)
(* QueryEngine.                                                            *)
(***************************************************************************)
find_first_of(str, chars) ==
    LET hits == {p \in 0..(Len(str) - 1) : Char(str, p) \in chars}
    IN  IF hits = {} THEN npos
        ELSE CHOOSE p \in hits : \A q \in hits : p <= q

\* while (ss >> word): the maximal runs of characters that are not spaces
RECURSIVE extractWords(_)
extractWords(str) ==
    LET first == find_first_not_of(str, SpaceChars)
    IN  IF first = npos THEN <<>>
        ELSE LET rest == substr(str, first)
                 stop == find_first_of(rest, SpaceChars)
             IN  IF stop = npos THEN <<rest>>
                 ELSE <<SubSeq(rest, 1, stop)>>
                      \o extractWords(substr(rest, stop))

stripWords(words) == [k \in 1..Len(words) |-> removePunctuation(words[k])]

\* string::substr(pos) throws std::out_of_range when pos > size()
substrThrows(str, pos) == pos < 0 \/ pos > Len(str)

extractRelationStart(question) == find(question, "is the ") + 7

extractRelation(question) ==
    LET start == extractRelationStart(question)
        end   == findFrom(question, " of", start)
    IN  IF start # npos /\ end # npos
        THEN removePunctuation(substrN(question, start, end - start))
        ELSE ""

\* extractObject without removePunctuation
extractObjectRaw(question, startPos) ==
    LET words == extractWords(substr(question, startPos))
    IN  IF words = <<>> THEN "" ELSE words[1]

extractObject(question, startPos) ==
    LET words == extractWords(substr(question, startPos))
    IN  removePunctuation(IF words = <<>> THEN "" ELSE words[1])

RECURSIVE resultLines(_, _, _)
resultLines(res, index, k) ==
    IF k > Len(res) THEN <<>>
    ELSE (IF index < Len(res[k]) THEN <<"  - " \o res[k][index + 1]>> ELSE <<>>)
         \o resultLines(res, index, k + 1)

printResults(res, label, index) ==
    IF res = <<>>
    THEN <<"Answer: No matches found.">>
    ELSE <<label \o ":">> \o resultLines(res, index, 1)

printYesNo(res) ==
    IF res # <<>> THEN <<"Answer: Yes">> ELSE <<"Answer: No (or unknown)">>

silent(f) == [facts |-> f, out |-> <<>>, fault |-> FALSE]

thrown(f) == [facts |-> f, out |-> <<>>, fault |-> TRUE]

whoRelation(f, questionLower) ==
    LET pos == find(questionLower, "of ")
    IN  IF pos = npos THEN silent(f)
        ELSE IF substrThrows(questionLower, pos + 3) THEN thrown(f)
        ELSE LET relation == extractRelation(questionLower)
                 object   == extractObject(questionLower, pos + 3)
                 r        == query(f, relation, <<"?", object>>)
             IN  [facts |-> r.facts,
                  out   |-> printResults(r.results, "Who", 0),
                  fault |-> FALSE]

whatDoes(f, questionLower) ==
    LET pos == find(questionLower, "what does ")
    IN  IF substrThrows(questionLower, pos + 10) THEN thrown(f)
        ELSE LET words == stripWords(extractWords(substr(questionLower, pos + 10)))
             IN  IF Len(words) >= 2
                 THEN LET r == query(f, words[2], <<words[1], "?">>)
                      IN  [facts |-> r.facts,
                           out   |-> printResults(r.results, "Answer", 1),
                           fault |-> FALSE]
                 ELSE silent(f)

whereDoes(f, questionLower) ==
    LET pos == find(questionLower, "where does ")
    IN  IF substrThrows(questionLower, pos + 11) THEN thrown(f)
        ELSE LET words   == extractWords(substr(questionLower, pos + 11))
                 subject == removePunctuation(
                                toLower(IF words = <<>> THEN "" ELSE words[1]))
                 r       == query(f, "lives_in", <<subject, "?">>)
             IN  [facts |-> r.facts,
                  out   |-> printResults(r.results, "Location", 1),
                  fault |-> FALSE]

isQuestion(f, questionLower) ==
    LET words == stripWords(extractWords(questionLower))
    IN  IF Len(words) = 3
        THEN LET r == query(f, words[3], <<words[2]>>)
             IN  [facts |-> r.facts, out |-> printYesNo(r.results),
                  fault |-> FALSE]
        ELSE IF Len(words) >= 4
        THEN LET r == query(f, words[3], <<words[2], words[4]>>)
             IN  [facts |-> r.facts, out |-> printYesNo(r.results),
                  fault |-> FALSE]
        ELSE silent(f)

processQuery(f, question) ==
    LET echo          == <<"Query: \"" \o question \o "\"">>
        questionLower == toLower(question)
        r == IF find(questionLower, "who is the") # npos
             THEN whoRelation(f, questionLower)
             ELSE IF find(questionLower, "what does") # npos
             THEN whatDoes(f, questionLower)
             ELSE IF find(questionLower, "where does") # npos
                     /\ find(questionLower, "live") # npos
             THEN whereDoes(f, questionLower)
             ELSE IF find(questionLower, "is ") = 0
             THEN isQuestion(f, questionLower)
             ELSE [facts |-> f,
                   out   |-> <<"Could not understand query format.">>,
                   fault |-> FALSE]
    IN  [r EXCEPT !.out = echo \o @]

(***************************************************************************)
(* Size of the store: the number of tuples over all predicates.            *)
(***************************************************************************)
RECURSIVE SumLen(_, _)
SumLen(f, keys) ==
    IF keys = {} THEN 0
    ELSE LET k == CHOOSE x \in keys : TRUE
         IN  Len(f[k]) + SumLen(f, keys \ {k})

NumFacts(f) == SumLen(f, DOMAIN f)

(***************************************************************************)
(* The calls main makes, one action per call.                              *)
(***************************************************************************)
AddFact(predicate, arguments) ==
    /\ alive
    /\ LET r == addFact(facts, predicate, arguments)
       IN  /\ facts' = r.facts
           /\ out' = r.out
    /\ op' = "addFact"
    /\ results' = <<>>
    /\ oob' = FALSE
    /\ added' = added \cup {<<predicate, arguments>>}
    /\ UNCHANGED alive

Query(predicate, arguments) ==
    /\ alive
    /\ LET r == query(facts, predicate, arguments)
       IN  /\ facts' = r.facts
           /\ results' = r.results
    /\ op' = "query"
    /\ out' = <<>>
    /\ oob' = FALSE
    /\ UNCHANGED <<alive, added>>

ParseText(text) ==
    /\ alive
    /\ \E r \in parseText(facts, text) :
          /\ facts' = r.facts
          /\ out' = r.out
          /\ alive' = ~r.fault
          /\ oob' = r.oob
          /\ added' = added \cup {r.calls[k] : k \in 1..Len(r.calls)}
    /\ op' = "parseText"
    /\ results' = <<>>

ProcessQuery(question) ==
    /\ alive
    /\ LET r == processQuery(facts, question)
       IN  /\ facts' = r.facts
           /\ out' = r.out
           /\ alive' = ~r.fault
    /\ op' = "processQuery"
    /\ results' = <<>>
    /\ oob' = FALSE
    /\ UNCHANGED added

Init ==
    /\ facts = EmptyFacts
    /\ op = "none"
    /\ out = <<>>
    /\ results = <<>>
    /\ alive = TRUE
    /\ oob = FALSE
    /\ added = {}

(***************************************************************************)
(* Spec: any sequence of the four calls, the store kept to MaxFacts        *)
(* tuples.                                                                 *)
(***************************************************************************)
Predicates == {"F", "g"}
QueryPredicates == {"f", "F", "g", "h"}
ArgTuples == {<<"a", "b">>, <<"A", "b">>, <<"a", "b", "c">>, <<"?">>}
PatternAtoms == {"a", "B", "?"}
Patterns == UNION {[1..n -> PatternAtoms] : n \in 0..MaxArity}

Statements == {"John likes pizza", "Alice is tall."}
Questions == {"Is Alice tall?", "What does John like?",
              "Who is the f of b?", "Tell me about John"}

Next ==
    \/ /\ NumFacts(facts) < MaxFacts
       /\ \E p \in Predicates, a \in ArgTuples : AddFact(p, a)
    \/ \E p \in QueryPredicates, a \in Patterns : Query(p, a)
    \/ /\ NumFacts(facts) < MaxFacts
       /\ \E t \in Statements : ParseText(t)
    \/ \E q \in Questions : ProcessQuery(q)

Spec == Init /\ [][Next]_vars

(***************************************************************************)
(* SpecDemo: the statements and questions of main and of its description,  *)
(* in any order, the store kept to MaxDemoFacts tuples.                    *)
(***************************************************************************)
DemoStatements ==
    {"John is the parent of Mary", "John is the parent of Tom",
     "John likes pizza", "Alice is tall", "John lives in Paris"}

DemoQuestions ==
    {"Who is the parent of Mary?", "What does John like?",
     "Where does John live?", "Is Alice tall?", "Is Mary tall?",
     "Is John the parent of Tom?"}

NextDemo ==
    \/ /\ NumFacts(facts) < MaxDemoFacts
       /\ \E t \in DemoStatements : ParseText(t)
    \/ \E q \in DemoQuestions : ProcessQuery(q)

SpecDemo == Init /\ [][NextDemo]_vars

(***************************************************************************)
(* SpecParse: one call of parseText, on every sentence of at most          *)
(* MaxTokens words of Vocabulary and on the sentences of OtherSentences,   *)
(* from the empty store and from the store after "John lives in Paris".    *)
(***************************************************************************)
Vocabulary == {"Al.", "Is", "the", "of", "lives", "in"}

RECURSIVE joinWords(_)
joinWords(ws) ==
    IF ws = <<>> THEN ""
    ELSE IF Len(ws) = 1 THEN ws[1]
    ELSE ws[1] \o " " \o joinWords(Tail(ws))

WordSentences ==
    {joinWords(ws) : ws \in UNION {[1..n -> Vocabulary] : n \in 0..MaxTokens}}

OtherSentences ==
    DemoStatements \cup
    {" ", "Olives in jars", "Al. is the boss of ", "of x is the boss of",
     "Bo is the big boss of Al.", "Al. Bo is ", "Al.  is\ttall!!", "Bo is",
     "Bo is the boss of Cy?", "Cy relives in Rome", "Bo likes Cy, a lot"}

RelationOfSentences ==
    {S \o " is the " \o R \o " of " \o O
     : S \in Vocabulary, R \in Vocabulary, O \in Vocabulary}

Sentences == WordSentences \cup RelationOfSentences \cup OtherSentences

ParisFacts == addFact(EmptyFacts, "lives_in", <<"john", "paris">>).facts

InitParse ==
    /\ \/ facts = EmptyFacts /\ added = {}
       \/ facts = ParisFacts /\ added = {<<"lives_in", <<"john", "paris">>>>}
    /\ op = "none"
    /\ out = <<>>
    /\ results = <<>>
    /\ alive = TRUE
    /\ oob = FALSE

NextParse == op = "none" /\ \E t \in Sentences : ParseText(t)

SpecParse == InitParse /\ [][NextParse]_vars

(***************************************************************************)
(* SpecAsk: one call of processQuery, on every question of at most         *)
(* MaxPhrases phrases of Phrases and on the questions of OtherQuestions,   *)
(* from the empty store and from the store BossFacts.                      *)
(***************************************************************************)
Phrases ==
    {"Who is the", "What does", "Where does", "Is", "Al", "boss", "of",
     "live?"}

PhraseQuestions ==
    {joinWords(ws) : ws \in UNION {[1..n -> Phrases] : n \in 0..MaxPhrases}}

OtherQuestions ==
    DemoQuestions \cup
    {"Tell me about John", "Who is the boss?", "Who is the boss of ",
     "WHO IS THE BOSS OF AL?!", "What does John?", "what doesn't Al boss",
     "Where doesn't Al live", "Where does he stay?", "Is John?", "is ",
     " Is Al boss?", "This Al boss?"}

AskQuestions == PhraseQuestions \cup OtherQuestions

BossFacts ==
    LET f1 == addFact(EmptyFacts, "boss", <<"al", "al">>).facts
        f2 == addFact(f1, "boss", <<"al">>).facts
        f3 == addFact(f2, "boss", <<"boss", "al">>).facts
    IN  addFact(f3, "lives_in", <<"al", "rome">>).facts

InitAsk ==
    /\ facts \in {EmptyFacts, BossFacts}
    /\ op = "none"
    /\ out = <<>>
    /\ results = <<>>
    /\ alive = TRUE
    /\ oob = FALSE
    /\ added = {}

NextAsk == op = "none" /\ \E q \in AskQuestions : ProcessQuery(q)

SpecAsk == InitAsk /\ [][NextAsk]_vars

(***************************************************************************)
(* Properties.                                                             *)
(***************************************************************************)
\* The store f with tuple appended to the sequence under key
AppendAt(f, key, tuple) ==
    [k \in DOMAIN f \cup {key} |->
        IF k = key
        THEN (IF key \in DOMAIN f THEN f[key] ELSE <<>>) \o <<tuple>>
        ELSE f[k]]

Holds(f, key, tuple) ==
    key \in DOMAIN f /\ \E k \in 1..Len(f[key]) : f[key][k] = tuple

\* The sentence or question the last call echoed
EchoedText(o) ==
    LET q == CHOOSE p \in 1..Len(o[1]) : SubSeq(o[1], p, p) = "\""
    IN  SubSeq(o[1], q + 1, Len(o[1]) - 1)

MatchesPattern(tuple, pattern) ==
    /\ Len(tuple) = Len(pattern)
    /\ \A i \in 1..Len(pattern) :
          pattern[i] = "?" \/ toLower(pattern[i]) = toLower(tuple[i])

MatchesOf(f, predicate, pattern) ==
    IF toLower(predicate) \in DOMAIN f
    THEN SelectSeq(f[toLower(predicate)],
                   LAMBDA t : MatchesPattern(t, pattern))
    ELSE <<>>

\* C1: in every store, query(P, Q) returns exactly the tuples under
\* lower-cased P that have the length of Q and agree with Q at every
\* position that is not "?", compared without regard to case, in insertion
\* order: tuples of another length are passed over and the scan goes on,
\* and an unknown predicate gives the empty list.
C1_QueryReturnsMatches ==
    /\ \A P \in QueryPredicates, Q \in Patterns :
          query(facts, P, Q).results = MatchesOf(facts, P, Q)
    /\ op = "query" =>
          \E P \in QueryPredicates, Q \in Patterns :
              results = MatchesOf(facts, P, Q)

C1_Witness ==
    /\ op = "query"
    /\ "f" \in DOMAIN facts
    /\ facts["f"] = <<<<"a", "b", "c">>, <<"a", "b">>>>
    /\ results = <<<<"a", "b">>>>

\* C2: the store starts empty; every step leaves it as it is or appends one
\* tuple at the end of one sequence and leaves the other sequences as they
\* are, and addFact(P, A) appends A under lower-cased P, also when A is
\* stored there already.
C2_AppendOnly ==
    facts = EmptyFacts /\
    [][/\ \A P \in Predicates, A \in ArgTuples :
             addFact(facts, P, A).facts = AppendAt(facts, toLower(P), A)
       /\ op' = "addFact" =>
             \E P \in Predicates, A \in ArgTuples :
                 facts' = AppendAt(facts, toLower(P), A)
       /\ \/ facts' = facts
          \/ \E key \in DOMAIN facts' :
                /\ facts'[key] # <<>>
                /\ facts' = AppendAt(facts, key,
                                     facts'[key][Len(facts'[key])])]_vars

C2_Witness ==
    /\ op = "addFact"
    /\ "f" \in DOMAIN facts
    /\ facts["f"] = <<<<"A", "b">>, <<"A", "b">>>>

\* C3: for every addFact(P, A) made so far, query(P', A) contains A for
\* every P' that is P in some letter case.
CasedPredicates ==
    QueryPredicates \cup {"G", "likes", "Likes", "LIKES", "tall", "Tall"}

C3_AddedIsFound ==
    \A pa \in added :
        \A P \in {pa[1]} \cup {Q \in CasedPredicates : toLower(Q) = toLower(pa[1])} :
            LET res == query(facts, P, pa[2]).results
            IN  \E k \in 1..Len(res) : res[k] = pa[2]

C3_Witness ==
    /\ <<"F", <<"A", "b">>>> \in added
    /\ <<"likes", <<"john", "pizza">>>> \in added
    /\ op = "processQuery"

\* C4: query and processQuery leave the store as it is, also when they name
\* a predicate the store has no sequence for.
C4_LookupsReadOnly ==
    /\ [](/\ \A P \in QueryPredicates, Q \in Patterns :
                query(facts, P, Q).facts = facts
          /\ \A q \in Questions : processQuery(facts, q).facts = facts)
    /\ [][op' \in {"query", "processQuery"} => facts' = facts]_vars

C4_Witness ==
    /\ op = "processQuery"
    /\ out = <<"Query: \"What does John like?\"", "Answer: No matches found.">>
    /\ DOMAIN facts = {"likes"}

\* C5: one call of parseText leaves the number of stored tuples as it is or
\* raises it by one.
C5_AtMostOneFact ==
    [][op' = "parseText" =>
          \/ NumFacts(facts') = NumFacts(facts)
          \/ NumFacts(facts') = NumFacts(facts) + 1]_vars

C5_Witness ==
    /\ op = "parseText"
    /\ EchoedText(out) = "Al. is the Al. of lives"
    /\ NumFacts(facts) = 2

(***************************************************************************)
(* The statement forms, written out over Vocabulary.  NormalForm is the    *)
(* atom of a word: lower-cased, trailing punctuation removed.              *)
(***************************************************************************)
NormalForm ==
    [w \in Vocabulary |->
        CASE w = "Al." -> "al"
          [] w = "Is"  -> "is"
          [] OTHER     -> w]

ExampleCases ==
    {[text |-> "John is the parent of Mary",
      pred |-> "parent", args |-> <<"john", "mary">>],
     [text |-> "John likes pizza",
      pred |-> "likes", args |-> <<"john", "pizza">>],
     [text |-> "Alice is tall",
      pred |-> "tall", args |-> <<"alice">>],
     [text |-> "John lives in Paris",
      pred |-> "lives_in", args |-> <<"john", "paris">>]}

RelationOfCases ==
    {[text |-> S \o " is the " \o R \o " of " \o O,
      pred |-> NormalForm[R], args |-> <<NormalForm[S], NormalForm[O]>>]
     : S \in Vocabulary, R \in Vocabulary, O \in Vocabulary}

PropertyCases ==
    {[text |-> S \o " " \o is \o " " \o P,
      pred |-> NormalForm[P], args |-> <<NormalForm[S]>>]
     : S \in Vocabulary, is \in {"is", "Is"}, P \in Vocabulary}

LivesInCases ==
    {[text |-> S \o " lives in " \o L,
      pred |-> "lives_in", args |-> <<NormalForm[S], NormalForm[L]>>]
     : S \in Vocabulary, L \in Vocabulary}

\* every other sentence of three words: the second word is not "is" in any
\* letter case
TripleCases ==
    {[text |-> S \o " " \o R \o " " \o O,
      pred |-> NormalForm[R], args |-> <<NormalForm[S], NormalForm[O]>>]
     : S \in Vocabulary, R \in Vocabulary \ {"Is"}, O \in Vocabulary}

TripleCasesWithoutLivesIn ==
    {c \in TripleCases : find(toLower(c.text), "lives in") = npos}

CasesAsClaimed ==
    ExampleCases \cup RelationOfCases \cup PropertyCases
        \cup LivesInCases \cup TripleCases

CasesAmended ==
    ExampleCases \cup RelationOfCases \cup PropertyCases
        \cup LivesInCases \cup TripleCasesWithoutLivesIn

ClaimedFor == [t \in {c.text : c \in CasesAsClaimed} |->
                  {c \in CasesAsClaimed : c.text = t}]

AmendedFor == [t \in {c.text : c \in CasesAmended} |->
                  {c \in CasesAmended : c.text = t}]

InsertsExactly(cases) ==
    op' = "parseText" =>
        LET t == EchoedText(out')
        IN  t \in DOMAIN cases =>
                \A c \in cases[t] :
                    alive' /\ facts' = AppendAt(facts, c.pred, c.args)

\* C6 as claimed: parseText on "S is the R of O" inserts exactly R(s, o), on
\* "S is P" exactly P(s), on "S lives in L" exactly lives_in(s, l) and on
\* every other "S R O" exactly R(s, o), the atoms lower-cased and without
\* trailing punctuation.
C6_AsClaimed == [][InsertsExactly(ClaimedFor)]_vars

\* C6 as amended: the same, but an other "S R O" gives R(s, o) only when its
\* lower-cased text does not contain "lives in".
C6_StatementRoundTrip == [][InsertsExactly(AmendedFor)]_vars

C6_Witness ==
    /\ op = "parseText"
    /\ EchoedText(out) = "Al. the Is"
    /\ facts = AppendAt(ParisFacts, "the", <<"al", "is">>)

\* C7 as claimed: once parent(john, tom) is stored, the question
\* "Is John the parent of Tom?" is answered "Yes".
C7_YesForRelationOf ==
    (/\ op = "processQuery"
     /\ EchoedText(out) = "Is John the parent of Tom?"
     /\ Holds(facts, "parent", <<"john", "tom">>))
        => out = <<"Query: \"Is John the parent of Tom?\"", "Answer: Yes">>

\* C8: with the store holding parent(john, mary), parent(john, tom),
\* likes(john, pizza), tall(alice) and lives_in(john, paris), the four
\* questions are answered [john], [paris], "Yes" and "No (or unknown)".
HoldsDemoFacts ==
    /\ DOMAIN facts = {"parent", "likes", "tall", "lives_in"}
    /\ Len(facts["parent"]) = 2
    /\ Holds(facts, "parent", <<"john", "mary">>)
    /\ Holds(facts, "parent", <<"john", "tom">>)
    /\ facts["likes"] = <<<<"john", "pizza">>>>
    /\ facts["tall"] = <<<<"alice">>>>
    /\ facts["lives_in"] = <<<<"john", "paris">>>>

DemoAnswers ==
    {<<"Query: \"Who is the parent of Mary?\"", "Who:", "  - john">>,
     <<"Query: \"Where does John live?\"", "Location:", "  - paris">>,
     <<"Query: \"Is Alice tall?\"", "Answer: Yes">>,
     <<"Query: \"Is Mary tall?\"", "Answer: No (or unknown)">>}

C8_QuestionRoundTrip ==
    (HoldsDemoFacts /\ op = "processQuery") =>
        \A a \in DemoAnswers : out[1] = a[1] => out = a

C8_Witness ==
    /\ HoldsDemoFacts
    /\ op = "processQuery"
    /\ out = <<"Query: \"Who is the parent of Mary?\"", "Who:", "  - john">>

\* C9 as claimed: no call of parseText reads a word outside the vector of
\* words, and every call returns.
C9_NoFault == op = "parseText" => (~oob /\ alive)

\* C10 as claimed: a call of parseText that returns has either inserted one
\* fact and confirmed it, or inserted none and reported that.
Diagnostics ==
    {"Empty sentence, nothing to parse.", "Could not parse sentence pattern."}

C10_ParsedOrReported ==
    [][(op' = "parseText" /\ alive') =>
          \/ /\ NumFacts(facts') = NumFacts(facts) + 1
             /\ Len(out') = 2
             /\ SubSeq(out'[2], 1, 11) = "Added fact:"
          \/ /\ facts' = facts
             /\ Len(out') = 2
             /\ out'[2] \in Diagnostics]_vars

\* The question is classified into one of the four patterns
Recognized(question) ==
    LET questionLower == toLower(question)
    IN  \/ find(questionLower, "who is the") # npos
        \/ find(questionLower, "what does") # npos
        \/ /\ find(questionLower, "where does") # npos
           /\ find(questionLower, "live") # npos
        \/ find(questionLower, "is ") = 0

\* After the echo: a label and one line for each value, or one answer line
Rendered(o) ==
    /\ Len(o) >= 2
    /\ \/ /\ Len(o) = 2
          /\ o[2] \in {"Answer: No matches found.", "Answer: Yes",
                       "Answer: No (or unknown)"}
       \/ /\ Len(o) >= 3
          /\ o[2] \in {"Who:", "Answer:", "Location:"}
          /\ \A k \in 3..Len(o) : SubSeq(o[k], 1, 4) = "  - "

\* C11 as claimed: every call of processQuery returns and writes one
\* outcome after the echo: for a question of one of the four patterns a
\* labelled list of values, "No matches found.", "Yes" or "No (or
\* unknown)", and for every other question, and only for those, "Could not
\* understand query format.".
C11_AlwaysRenders ==
    op = "processQuery" =>
        /\ alive
        /\ IF Recognized(EchoedText(out))
           THEN Rendered(out)
           ELSE out = <<out[1], "Could not understand query format.">>

\* The positions of a word "lives" that is followed by the word "in" and by
\* one more word
LivesInPairs(words) ==
    {i \in 1..(Len(words) - 2) :
        toLower(words[i]) = "lives" /\ toLower(words[i + 1]) = "in"}

\* The store after lives_in(word before "lives", word two after "lives")
LivesInAt(f, words, i) ==
    AppendAt(f, "lives_in", <<removePunctuation(toLower(words[i - 1])),
                              removePunctuation(toLower(words[i + 2]))>>)

\* C12 as claimed: a call of parseText on a sentence whose lower-cased text
\* contains "lives in" returns, and it inserts lives_in(word before "lives",
\* word two after "lives") for the first word "lives" followed by "in" or,
\* when no word stands before that one, for a later one or nothing; without
\* such a pair of words it inserts nothing; no fact is inserted under
\* another predicate.
C12_LocationOnly ==
    [][(op' = "parseText" /\ find(toLower(EchoedText(out')), "lives in") # npos)
          => LET words == split(EchoedText(out'), " ")
                 pairs == LivesInPairs(words)
                 first == CHOOSE i \in pairs : \A j \in pairs : i <= j
             IN  /\ alive'
                 /\ IF pairs = {} THEN facts' = facts
                    ELSE IF first > 1
                    THEN facts' = LivesInAt(facts, words, first)
                    ELSE \/ facts' = facts
                         \/ \E i \in pairs \ {1} :
                               facts' = LivesInAt(facts, words, i)]_vars

====
